---- MODULE Spec2Model ----
(***************************************************************************)
(* SendGrid backend of django-anymail (anymail/backends/sendgrid.py).      *)
(*                                                                         *)
(* One SendGridPayload is built by setter calls, finalized once by         *)
(* serialize_data, and the provider's response is then turned into         *)
(* per-recipient statuses by SendGridBackend.parse_recipient_status.       *)
(*                                                                         *)
(* Python values are modelled as follows.                                  *)
(*   dict                 a function whose DOMAIN is the key set           *)
(*   list                 a sequence                                       *)
(*   str                  where it is cut or joined (sender address,       *)
(*                        header values, error texts): a sequence of       *)
(*                        tokens; elsewhere a TLA+ string                  *)
(*   header value         [t |-> "str" | "int" | "float", v |-> tokens]    *)
(*   CaseInsensitiveDict  [kind |-> "cidict", m |-> lowered name :>        *)
(*                        [key |-> name as last written, value |-> v]]     *)
(*   plain dict of headers [kind |-> "dict", m |-> name :> value]          *)
(*   JSON text            [kind |-> "json", m |-> the encoded mapping]     *)
(*   parsed JSON          [t |-> "list" | "str" | "num" | "null",          *)
(*                         v |-> text, items |-> items]; an object by its  *)
(*                        members [t |-> "obj", message |-> , errors |-> ] *)
(***************************************************************************)
EXTENDS Integers, Sequences, FiniteSets, TLC

VARIABLES
    data,            \* SendGridPayload.data: the field mapping
    files,           \* SendGridPayload.files: the attachment parts
    smtpapi,         \* SendGridPayload.smtpapi: the x-smtpapi options
    all_recipients,  \* SendGridPayload.all_recipients
    message_id,      \* SendGridPayload.message_id
    pc,              \* "building", "serialized", "parsed" or "failed"
    op,              \* the call just made: [name |-> ..., arg |-> ...]
    raised,          \* the exception that call raised (type "none": none)
    result,          \* what parse_recipient_status returned
    given            \* the addresses passed to set_recipients so far

vars == <<data, files, smtpapi, all_recipients, message_id, pc, op, raised,
          result, given>>

(***************************************************************************)
(* Bounds                                                                  *)
(***************************************************************************)
MaxEmails == 2        \* longest recipient list of one set_recipients call
MaxRecipients == 3    \* longest all_recipients
MaxHeaders == 2       \* most entries of one set_extra_headers argument
MaxSender == 3        \* longest sender address, in tokens

(***************************************************************************)
(* Python built-ins                                                        *)
(***************************************************************************)
EmptyDict == [k \in {} |-> {}]

\* {k: v}
Single(k, v) == [x \in {k} |-> v]

\* dict.update: e's entries replace or extend d's
Update(d, e) ==
    [k \in DOMAIN d \cup DOMAIN e |-> IF k \in DOMAIN e THEN e[k] ELSE d[k]]

\* sep.join(items), as tokens
RECURSIVE Join(_, _)
Join(items, sep) ==
    IF Len(items) = 0 THEN <<>>
    ELSE IF Len(items) = 1 THEN items[1]
    ELSE items[1] \o <<sep>> \o Join(Tail(items), sep)

\* s.split(sep): the pieces between the occurrences of sep
RECURSIVE Split(_, _)
Split(s, sep) ==
    IF \A i \in 1..Len(s) : s[i] # sep THEN <<s>>
    ELSE LET i == CHOOSE j \in 1..Len(s) :
                      s[j] = sep /\ \A k \in 1..(j - 1) : s[k] # sep
         IN <<SubSeq(s, 1, i - 1)>> \o Split(SubSeq(s, i + 1, Len(s)), sep)

\* int(bool)
int(b) == IF b THEN 1 ELSE 0

NoError == [type |-> "none", text |-> <<>>, email_message |-> "none",
            payload |-> "none", response |-> "none"]

NoResult == [status |-> "none", statuses |-> EmptyDict]


(***************************************************************************)
(* Header mappings                                                         *)
(***************************************************************************)
HeaderNames == {"Message-ID", "message-id", "Reply-To", "reply-to",
                "X-Tag", "x-tag"}

\* str.lower on the header names of the model
Lower(name) ==
    CASE name \in {"Message-ID", "message-id"} -> "message-id"
      [] name \in {"Reply-To", "reply-to"} -> "reply-to"
      [] name \in {"X-Tag", "x-tag"} -> "x-tag"

\* CaseInsensitiveDict()
NewCaseInsensitiveDict == [kind |-> "cidict", m |-> EmptyDict]

\* key in headers
HasItem(h, k) ==
    IF h.kind = "cidict" THEN Lower(k) \in DOMAIN h.m ELSE k \in DOMAIN h.m

\* headers[key]
GetItem(h, k) ==
    IF h.kind = "cidict" THEN h.m[Lower(k)].value ELSE h.m[k]

\* headers[key] = value
SetItem(h, k, v) ==
    IF h.kind = "cidict"
    THEN [h EXCEPT !.m = Update(h.m, Single(Lower(k), [key |-> k, value |-> v]))]
    ELSE [h EXCEPT !.m = Update(h.m, Single(k, v))]

\* headers.update(pairs), pairs in the iteration order of the argument
RECURSIVE UpdateItems(_, _)
UpdateItems(h, pairs) ==
    IF pairs = <<>> THEN h
    ELSE UpdateItems(SetItem(h, pairs[1][1], pairs[1][2]), Tail(pairs))

\* dict(headers.items())
Items(h) ==
    IF h.kind = "cidict"
    THEN [k \in {h.m[l].key : l \in DOMAIN h.m} |-> h.m[Lower(k)].value]
    ELSE h.m

\* RequestsPayload.serialize_json: the JSON text of a mapping
serialize_json(m) == [kind |-> "json", m |-> m]

(***************************************************************************)
(* SendGridPayload.__init__ and init_payload                               *)
(***************************************************************************)
NoneId == [t |-> "none", v |-> <<>>]

init_payload == Single("headers", NewCaseInsensitiveDict)

Init ==
    /\ data = init_payload
    /\ files = EmptyDict
    /\ smtpapi = EmptyDict
    /\ all_recipients = <<>>
    /\ message_id = NoneId
    /\ pc = "building"
    /\ op = [name |-> "__init__", arg |-> <<>>]
    /\ raised = NoError
    /\ result = NoResult
    /\ given = {}

(***************************************************************************)
(* make_message_id and serialize_data                                      *)
(***************************************************************************)
None == <<"None">>
DNS_NAME == <<"localhost">>

\* django.core.mail.make_msgid(domain=domain)
make_msgid(domain) ==
    [t |-> "str",
     v |-> <<"<", "unique", "@">> \o (IF domain = None THEN DNS_NAME ELSE domain)
           \o <<">">>]

make_message_id(d) ==
    LET parts == Split(d["from"].v, "@")
        domain == IF "from" \notin DOMAIN d THEN None              \* KeyError
                  ELSE IF d["from"].t # "str" THEN None            \* AttributeError
                  ELSE IF Len(parts) # 2 THEN None                 \* ValueError
                  ELSE parts[2]
    IN make_msgid(domain)

\* esp_extra_smtpapi.update(self.smtpapi): the builder's value wins
SerializedSmtpapi_BuilderWins ==
    IF DOMAIN smtpapi # {} /\ "x-smtpapi" \in DOMAIN data
    THEN Update(data["x-smtpapi"], smtpapi)
    ELSE smtpapi

\* self.smtpapi after the x-smtpapi step
SerializedSmtpapi ==
    IF DOMAIN smtpapi # {} /\ "x-smtpapi" \in DOMAIN data
    THEN Update(smtpapi, data["x-smtpapi"])
    ELSE smtpapi

\* self.data after the x-smtpapi step
DataWithSmtpapi ==
    IF DOMAIN smtpapi # {}
    THEN Update(data, Single("x-smtpapi", serialize_json(SerializedSmtpapi)))
    ELSE IF "x-smtpapi" \in DOMAIN data
    THEN Update(data, Single("x-smtpapi", serialize_json(data["x-smtpapi"])))
    ELSE data

\* self.message_id after the Message-ID step
ResolvedMessageId ==
    LET headers == DataWithSmtpapi["headers"]
    IN IF HasItem(headers, "Message-ID") THEN GetItem(headers, "Message-ID")
       ELSE make_message_id(DataWithSmtpapi)

\* the headers mapping after the Message-ID step
ResolvedHeaders ==
    LET headers == DataWithSmtpapi["headers"]
    IN IF HasItem(headers, "Message-ID") THEN headers
       ELSE SetItem(headers, "Message-ID", ResolvedMessageId)

serialize_data ==
    /\ pc = "building"
    /\ smtpapi' = SerializedSmtpapi
    /\ message_id' = ResolvedMessageId
    /\ data' = Update(DataWithSmtpapi,
                      Single("headers", serialize_json(Items(ResolvedHeaders))))
    /\ pc' = "serialized"
    /\ op' = [name |-> "serialize_data", arg |-> <<>>]
    /\ raised' = NoError
    /\ UNCHANGED <<files, all_recipients, result, given>>

(***************************************************************************)
(* set_recipients                                                          *)
(***************************************************************************)
Recipients == {[email |-> "a@x.org", name |-> ""],
               [email |-> "b@x.org", name |-> "Bob"],
               [email |-> "c@y.org", name |-> ""]}

RECURSIVE SeqsUpTo(_, _)
SeqsUpTo(S, n) ==
    IF n = 0 THEN {<<>>}
    ELSE SeqsUpTo(S, n - 1)
         \cup {Append(s, x) : s \in {t \in SeqsUpTo(S, n - 1) : Len(t) = n - 1}, x \in S}

RecipientLists == SeqsUpTo(Recipients, MaxEmails)

\* recipient_type + "name"
NameField(recipient_type) ==
    CASE recipient_type = "to" -> "toname"
      [] recipient_type = "cc" -> "ccname"
      [] recipient_type = "bcc" -> "bccname"

empty_name == " "

\* the name as given, without the placeholder
NameOr_Raw(email) == email.name

\* email.name or empty_name
NameOr(email) == IF email.name # "" THEN email.name ELSE empty_name

\* self.all_recipients = emails
AllRecipientsPlus_Assign(emails) == emails

\* self.all_recipients += emails
AllRecipientsPlus(emails) == all_recipients \o emails

set_recipients(recipient_type, emails) ==
    /\ pc = "building"
    /\ recipient_type \in {"to", "cc", "bcc"}
    /\ Len(all_recipients) + Len(emails) <= MaxRecipients
    /\ IF emails # <<>>
       THEN /\ data' = Update(Update(data,
                  Single(recipient_type, [i \in 1..Len(emails) |-> emails[i].email])),
                  Single(NameField(recipient_type),
                         [i \in 1..Len(emails) |-> NameOr(emails[i])]))
            /\ all_recipients' = AllRecipientsPlus(emails)
       ELSE UNCHANGED <<data, all_recipients>>
    /\ given' = given \cup {emails[i].email : i \in 1..Len(emails)}
    /\ op' = [name |-> "set_recipients", arg |-> <<recipient_type, emails>>]
    /\ raised' = NoError
    /\ UNCHANGED <<files, smtpapi, message_id, pc, result>>

(***************************************************************************)
(* parse_recipient_status                                                  *)
(***************************************************************************)
\* a JSON value that is no object: its type, its text and its items
JStr(text) == [t |-> "str", v |-> text, items |-> <<>>]
JNum == [t |-> "num", v |-> <<"1">>, items |-> <<>>]
JNull == [t |-> "null", v |-> <<>>, items |-> <<>>]
JList(items) == [t |-> "list", v |-> <<>>, items |-> items]

\* a member a JSON object does not have
Absent == [t |-> "absent", v |-> <<>>, items |-> <<>>]

\* response.json(): a JSON object, by its "message" and "errors" members
JObj(message, errors) == [t |-> "obj", message |-> message, errors |-> errors]

\* response.json() of a body that is another JSON value, or no JSON at all
NonObject(t) == [t |-> t, message |-> Absent, errors |-> Absent]

\* key in parsed_response
HasMember(parsed_response, key) ==
    IF key = "message" THEN parsed_response.message.t # "absent"
    ELSE parsed_response.errors.t # "absent"

MessageFields == {Absent, JStr(<<"success">>), JStr(<<"error">>), JNum, JNull}

ErrorFields == {Absent, JList(<<>>), JList(<<JStr(<<"bad address">>)>>),
                JList(<<JStr(<<"e1">>), JStr(<<"e2">>)>>), JList(<<JNum>>),
                JList(<<JStr(<<"e1">>), JNum>>), JNull, JStr(<<"n", "o">>)}

Responses ==
    {NonObject(t) : t \in {"malformed", "list", "str", "num", "null"}}
    \cup {JObj(m, e) : m \in MessageFields, e \in ErrorFields}

\* AnymailRequestsAPIError(text, email_message=message, payload=payload, response=response)
AnymailRequestsAPIError(text, response) ==
    [type |-> "AnymailRequestsAPIError", text |-> text,
     email_message |-> "message", payload |-> "payload", response |-> response]

\* an exception the code does not catch
Uncaught(type) == [NoError EXCEPT !.type = type]

\* AnymailRequestsBackend.deserialize_json_response raises on a body that is no JSON
DeserializeFails(response) == response.t = "malformed"

\* parsed_response["message"] raises KeyError or TypeError
NoMessage(parsed_response) ==
    IF parsed_response.t = "obj" THEN ~HasMember(parsed_response, "message")
    ELSE TRUE

\* parsed_response.get("errors", [])
GetErrors(parsed_response) ==
    IF HasMember(parsed_response, "errors") THEN parsed_response.errors
    ELSE JList(<<>>)

\* "; ".join(errors) raises TypeError
JoinFails(errors) ==
    CASE errors.t = "list" -> \E i \in 1..Len(errors.items) : errors.items[i].t # "str"
      [] errors.t = "str" -> FALSE
      [] OTHER -> TRUE

\* "; ".join(errors): of a list its items, of a str its characters
JoinErrors(errors) ==
    IF errors.t = "list"
    THEN Join([i \in 1..Len(errors.items) |-> errors.items[i].v], "; ")
    ELSE Join([i \in 1..Len(errors.v) |-> <<errors.v[i]>>], "; ")

\* sendgrid_message != "success"
NotSuccess(sendgrid_message) ==
    ~(sendgrid_message.t = "str" /\ sendgrid_message.v = <<"success">>)

\* {recipient.email: status for recipient in payload.all_recipients}
RecipientStatus ==
    [status |-> "returned",
     statuses |-> [a \in {all_recipients[i].email : i \in 1..Len(all_recipients)} |->
                      [message_id |-> message_id, status |-> "queued"]]]

\* the exception parse_recipient_status raises on response (type "none": it returns)
ParseRaises(response) ==
    IF DeserializeFails(response)
    THEN AnymailRequestsAPIError(<<"Invalid JSON in SendGrid API response">>, response)
    ELSE IF NoMessage(response)
    THEN AnymailRequestsAPIError(<<"Invalid SendGrid API response format">>, response)
    ELSE IF NotSuccess(response.message)
    THEN IF JoinFails(GetErrors(response)) THEN Uncaught("TypeError")
         ELSE AnymailRequestsAPIError(
                  <<"SendGrid send failed: '">> \o JoinErrors(GetErrors(response))
                  \o <<"'">>, response)
    ELSE NoError

parse_recipient_status(response) ==
    /\ pc = "serialized"
    /\ raised' = ParseRaises(response)
    /\ result' = IF ParseRaises(response).type = "none" THEN RecipientStatus
                 ELSE NoResult
    /\ pc' = IF ParseRaises(response).type = "none" THEN "parsed" ELSE "failed"
    /\ op' = [name |-> "parse_recipient_status", arg |-> response]
    /\ UNCHANGED <<data, files, smtpapi, all_recipients, message_id, given>>

(***************************************************************************)
(* Sending: recipients, finalization, response                             *)
(***************************************************************************)
NextSend ==
    \/ \E recipient_type \in {"to", "cc", "bcc"}, emails \in RecipientLists :
           set_recipients(recipient_type, emails)
    \/ serialize_data
    \/ \E response \in Responses : parse_recipient_status(response)

SpecSend == Init /\ [][NextSend]_vars

(***************************************************************************)
(* Properties of sending                                                   *)
(***************************************************************************)
\* the tokens occur in the text, in a row
Contains(text, tokens) ==
    \E j \in 0..(Len(text) - Len(tokens)) :
        \A k \in 1..Len(tokens) : text[j + k] = tokens[k]

IsSuccess(response) ==
    /\ response.t = "obj"
    /\ response.message.t = "str"
    /\ response.message.v = <<"success">>

\* C1: after set_recipients calls that gave at least one recipient, serialize_data
\* and a "success" response, the returned mapping's keys are exactly the addresses
\* given (to, cc and bcc together), every status is "queued", and every entry
\* carries the message_id serialize_data resolved, the Message-ID of the headers.
C1_QueuedForEveryRecipient ==
    (pc = "parsed" /\ given # {}) =>
        /\ IsSuccess(op.arg)
        /\ result.status = "returned"
        /\ DOMAIN result.statuses = given
        /\ \A a \in DOMAIN result.statuses :
               /\ result.statuses[a].status = "queued"
               /\ result.statuses[a].message_id = message_id
               /\ result.statuses[a].message_id = data["headers"].m["Message-ID"]

C1_Witness ==
    /\ pc = "parsed"
    /\ Cardinality(given) = 3
    /\ {"to", "cc"} \subseteq DOMAIN data
    /\ Len(all_recipients) = 3

\* C2: parse_recipient_status returns a mapping if and only if the response is an
\* object whose "message" is "success"; on every other response it raises an
\* AnymailRequestsAPIError carrying message, payload and response; a returned
\* mapping covers all recipients; a missing or wrong-typed indicator gives the
\* "Invalid SendGrid API response format" error.
C2_AllOrNothing ==
    op.name = "parse_recipient_status" =>
        /\ (result.status = "returned") <=> IsSuccess(op.arg)
        /\ ~IsSuccess(op.arg) =>
               /\ raised.type = "AnymailRequestsAPIError"
               /\ raised.email_message = "message"
               /\ raised.payload = "payload"
               /\ raised.response = op.arg
        /\ result.status = "returned" =>
               DOMAIN result.statuses =
                   {all_recipients[i].email : i \in 1..Len(all_recipients)}
        /\ (op.arg.t # "malformed" /\ op.arg.message.t # "str") =>
               raised.text = <<"Invalid SendGrid API response format">>

\* C3: on every response whose "message" is present and is not "success",
\* parse_recipient_status raises the send-failure AnymailRequestsAPIError, and its
\* text contains every entry of "errors" (absent: none), whatever "errors" holds.
C3_FailureAlwaysApiError ==
    (/\ op.name = "parse_recipient_status"
     /\ op.arg.t = "obj"
     /\ op.arg.message.t # "absent"
     /\ NotSuccess(op.arg.message)) =>
        /\ raised.type = "AnymailRequestsAPIError"
        /\ Contains(raised.text, <<"SendGrid send failed: '">>)
        /\ \A i \in 1..Len(op.arg.errors.items) :
               Contains(raised.text, op.arg.errors.items[i].v)

\* C6: set_recipients(type, emails) with a non-empty list leaves the address list
\* and the name list of that type as long as emails and in its order, a recipient
\* without a name being " "; no entry of toname, ccname or bccname is ever "";
\* with an empty list it changes no field and adds nothing to all_recipients.
C6_ParallelNameLists ==
    [][
    op'.name = "set_recipients" =>
        LET recipient_type == op'.arg[1]
            emails == op'.arg[2]
            names == CASE recipient_type = "to" -> "toname"
                       [] recipient_type = "cc" -> "ccname"
                       [] recipient_type = "bcc" -> "bccname"
        IN /\ emails # <<>> =>
                  /\ Len(data'[recipient_type]) = Len(emails)
                  /\ Len(data'[names]) = Len(emails)
                  /\ \A i \in 1..Len(emails) :
                         /\ data'[recipient_type][i] = emails[i].email
                         /\ data'[names][i] =
                                IF emails[i].name = "" THEN " " ELSE emails[i].name
           /\ emails = <<>> => (data' = data /\ all_recipients' = all_recipients)
           /\ \A f \in {"toname", "ccname", "bccname"} \cap DOMAIN data' :
                  \A i \in 1..Len(data'[f]) : data'[f][i] # ""
    ]_vars

C6_Witness ==
    /\ op.name = "set_recipients"
    /\ op.arg[1] = "bcc"
    /\ Len(op.arg[2]) = 2
    /\ op.arg[2][1].name = ""
    /\ op.arg[2][2].name # ""
    /\ "toname" \in DOMAIN data

(***************************************************************************)
(* Body parts and attachments                                              *)
(***************************************************************************)
\* BasePayload.unsupported_feature(description): raises AnymailUnsupportedFeature
unsupported_feature(description) ==
    [NoError EXCEPT !.type = "AnymailUnsupportedFeature", !.text = description]

Bodies == {"body one", "body two"}

set_text_body(body) ==
    /\ pc = "building"
    /\ data' = Update(data, Single("text", body))
    /\ op' = [name |-> "set_text_body", arg |-> body]
    /\ raised' = NoError
    /\ UNCHANGED <<files, smtpapi, all_recipients, message_id, pc, result, given>>

\* no test at all
HasHtml_Never == FALSE

\* "html" in self.data
HasHtml == "html" \in DOMAIN data

set_html_body(body) ==
    /\ pc = "building"
    /\ IF HasHtml
       THEN /\ raised' = unsupported_feature(<<"multiple html parts">>)
            /\ pc' = "failed"
            /\ UNCHANGED data
       ELSE /\ data' = Update(data, Single("html", body))
            /\ raised' = NoError
            /\ UNCHANGED pc
    /\ op' = [name |-> "set_html_body", arg |-> body]
    /\ UNCHANGED <<files, smtpapi, all_recipients, message_id, result, given>>

\* attachments: name "" is no name; cid is "" unless inline with a Content-ID
Attachments ==
    {[name |-> n, inline |-> FALSE, cid |-> "", content |-> c, mimetype |-> "image/png"] :
         n \in {"", "a.png"}, c \in {"bytes one", "bytes two"}}
    \cup
    {[name |-> n, inline |-> TRUE, cid |-> i, content |-> c, mimetype |-> "image/png"] :
         n \in {"", "a.png"}, i \in {"", "a.png", "logo"}, c \in {"bytes one", "bytes two"}}

\* "content[%s]" % filename
ContentField(filename) ==
    CASE filename = "" -> "content[]"
      [] filename = "a.png" -> "content[a.png]"
      [] filename = "logo" -> "content[logo]"

\* "files[%s]" % filename
FilesField(filename) ==
    CASE filename = "" -> "files[]"
      [] filename = "a.png" -> "files[a.png]"
      [] filename = "logo" -> "files[logo]"

\* filename after the inline step
Filename(attachment) ==
    IF attachment.inline /\ attachment.name = "" THEN attachment.cid
    ELSE attachment.name

\* no test at all
HasFile_Never(filename) == FALSE

\* files_field in self.files
HasFile(filename) == FilesField(filename) \in DOMAIN files

add_attachment(attachment) ==
    LET filename == Filename(attachment) IN
    /\ pc = "building"
    /\ data' = IF attachment.inline
               THEN Update(data, Single(ContentField(filename), attachment.cid))
               ELSE data
    /\ IF HasFile(filename)
       THEN /\ raised' = unsupported_feature(
                   IF filename # ""
                   THEN <<"multiple attachments with the same filename ('", filename, "')">>
                   ELSE <<"multiple unnamed attachments">>)
            /\ pc' = "failed"
            /\ UNCHANGED files
       ELSE /\ files' = Update(files, Single(FilesField(filename),
                   <<filename, attachment.content, attachment.mimetype>>))
            /\ raised' = NoError
            /\ UNCHANGED pc
    /\ op' = [name |-> "add_attachment", arg |-> attachment]
    /\ UNCHANGED <<smtpapi, all_recipients, message_id, result, given>>

NextContent ==
    \/ \E body \in Bodies : set_text_body(body)
    \/ \E body \in Bodies : set_html_body(body)
    \/ \E attachment \in Attachments : add_attachment(attachment)

SpecContent == Init /\ [][NextContent]_vars

\* C4: a set_html_body call on a payload that already has an HTML body raises the
\* unsupported-feature error "multiple html parts" and leaves the first body in
\* place; the first set_html_body call and every set_text_body call, in either
\* order, raise nothing; an HTML body once held is never replaced.
C4_SecondHtmlBodyRejected ==
    [][
    /\ (op'.name = "set_html_body" /\ "html" \in DOMAIN data) =>
           /\ raised'.type = "AnymailUnsupportedFeature"
           /\ raised'.text = <<"multiple html parts">>
           /\ pc' = "failed"
    /\ (op'.name = "set_html_body" /\ "html" \notin DOMAIN data) =>
           /\ raised'.type = "none"
           /\ "html" \in DOMAIN data'
           /\ data'["html"] = op'.arg
    /\ op'.name = "set_text_body" =>
           /\ raised'.type = "none"
           /\ data'["text"] = op'.arg
    /\ "html" \in DOMAIN data =>
           /\ "html" \in DOMAIN data'
           /\ data'["html"] = data["html"]
    ]_vars

C4_Witness ==
    /\ op.name = "set_html_body"
    /\ raised.type = "AnymailUnsupportedFeature"
    /\ "text" \in DOMAIN data
    /\ "html" \in DOMAIN data
    /\ data["html"] # op.arg

\* C5: add_attachment raises the unsupported-feature error when an earlier
\* attachment has the same filename (the name, or for an inline attachment
\* without a name its content-id), the empty filename included; otherwise it
\* raises nothing, the attachment becomes a new entry of files beside the earlier
\* ones, and an inline attachment also gets a content field holding its cid.
C5_DuplicateFilenameRejected ==
    [][
    op'.name = "add_attachment" =>
        LET attachment == op'.arg
            filename == IF attachment.name # "" THEN attachment.name
                        ELSE IF attachment.inline THEN attachment.cid ELSE ""
            earlier == {files[f][1] : f \in DOMAIN files}
        IN /\ filename \in earlier =>
                  /\ raised'.type = "AnymailUnsupportedFeature"
                  /\ filename = "" => raised'.text = <<"multiple unnamed attachments">>
                  /\ filename # "" => Contains(raised'.text, <<filename>>)
                  /\ files' = files
           /\ filename \notin earlier =>
                  /\ raised'.type = "none"
                  /\ Cardinality(DOMAIN files') = Cardinality(DOMAIN files) + 1
                  /\ \A f \in DOMAIN files : f \in DOMAIN files' /\ files'[f] = files[f]
                  /\ \E f \in DOMAIN files' \ DOMAIN files :
                         files'[f] = <<filename, attachment.content, attachment.mimetype>>
                  /\ attachment.inline =>
                         /\ ContentField(filename) \in DOMAIN data'
                         /\ data'[ContentField(filename)] = attachment.cid
                  /\ \A c \in DOMAIN data :
                         c # ContentField(filename) => (c \in DOMAIN data' /\ data'[c] = data[c])
    ]_vars

C5_Witness ==
    /\ op.name = "add_attachment"
    /\ raised.type = "AnymailUnsupportedFeature"
    /\ op.arg.name = "a.png"
    /\ Cardinality(DOMAIN files) = 2
    /\ "content[logo]" \in DOMAIN data

(***************************************************************************)
(* The x-smtpapi options and esp_extra                                     *)
(***************************************************************************)
Metadatas == {[user_id |-> "7"], [user_id |-> "8"]}

\* datetimes, as <<seconds, microseconds>> since the epoch
SendAts == {<<1000, 0>>, <<1000, 500000>>, <<2000, 0>>}

TagLists == {<<"receipt">>, <<"receipt", "welcome">>}

\* int(timestamp(send_at))
IntTimestamp(send_at) == send_at[1]

set_metadata(metadata) ==
    /\ pc = "building"
    /\ smtpapi' = Update(smtpapi, Single("unique_args", metadata))
    /\ op' = [name |-> "set_metadata", arg |-> metadata]
    /\ raised' = NoError
    /\ UNCHANGED <<data, files, all_recipients, message_id, pc, result, given>>

set_send_at(send_at) ==
    /\ pc = "building"
    /\ smtpapi' = Update(smtpapi, Single("send_at", IntTimestamp(send_at)))
    /\ op' = [name |-> "set_send_at", arg |-> send_at]
    /\ raised' = NoError
    /\ UNCHANGED <<data, files, all_recipients, message_id, pc, result, given>>

set_tags(tags) ==
    /\ pc = "building"
    /\ smtpapi' = Update(smtpapi, Single("category", tags))
    /\ op' = [name |-> "set_tags", arg |-> tags]
    /\ raised' = NoError
    /\ UNCHANGED <<data, files, all_recipients, message_id, pc, result, given>>

\* d.setdefault(key, {})
SetDefault(d, key) == IF key \in DOMAIN d THEN d[key] ELSE EmptyDict

\* self.smtpapi['filters'] = {filter_name: {'settings': {setting: val}}}
add_filter_Overwrite(filter_name, setting, val) ==
    Update(smtpapi, Single("filters",
        Single(filter_name, Single("settings", Single(setting, val)))))

\* self.smtpapi after add_filter
add_filter(filter_name, setting, val) ==
    LET filters == SetDefault(smtpapi, "filters")
        filter == SetDefault(filters, filter_name)
        settings == SetDefault(filter, "settings")
    IN Update(smtpapi, Single("filters",
           Update(filters, Single(filter_name,
               Update(filter, Single("settings",
                   Update(settings, Single(setting, val))))))))

set_track_clicks(track_clicks) ==
    /\ pc = "building"
    /\ smtpapi' = add_filter("clicktrack", "enable", int(track_clicks))
    /\ op' = [name |-> "set_track_clicks", arg |-> track_clicks]
    /\ raised' = NoError
    /\ UNCHANGED <<data, files, all_recipients, message_id, pc, result, given>>

set_track_opens(track_opens) ==
    /\ pc = "building"
    /\ smtpapi' = add_filter("opentrack", "enable", int(track_opens))
    /\ op' = [name |-> "set_track_opens", arg |-> track_opens]
    /\ raised' = NoError
    /\ UNCHANGED <<data, files, all_recipients, message_id, pc, result, given>>

set_esp_extra(extra) ==
    /\ pc = "building"
    /\ data' = Update(data, extra)
    /\ op' = [name |-> "set_esp_extra", arg |-> extra]
    /\ raised' = NoError
    /\ UNCHANGED <<files, smtpapi, all_recipients, message_id, pc, result, given>>

\* esp_extra values that hold an "x-smtpapi" mapping
SmtpapiExtra(i) ==
    CASE i = 1 -> Single("x-smtpapi", [category |-> <<"override">>])
      [] i = 2 -> Single("x-smtpapi", [ip_pool |-> "transactional"])
      [] i = 3 -> Single("x-smtpapi",
                     [filters |-> [templates |-> [settings |-> [enable |-> 1]]]])
      [] i = 4 -> Single("x-smtpapi",
                     [ip_pool |-> "bulk",
                      filters |-> [clicktrack |-> [settings |-> [enable |-> 0]]]])

SmtpapiExtras == 1..4

NextOptions ==
    \/ \E metadata \in Metadatas : set_metadata(metadata)
    \/ \E send_at \in SendAts : set_send_at(send_at)
    \/ \E tags \in TagLists : set_tags(tags)
    \/ \E track_clicks \in BOOLEAN : set_track_clicks(track_clicks)
    \/ \E track_opens \in BOOLEAN : set_track_opens(track_opens)
    \/ \E i \in SmtpapiExtras : set_esp_extra(SmtpapiExtra(i))
    \/ serialize_data

SpecOptions == Init /\ [][NextOptions]_vars

\* the option key a setter writes
OwnKey(name) ==
    CASE name = "set_metadata" -> "unique_args"
      [] name = "set_send_at" -> "send_at"
      [] name = "set_tags" -> "category"
      [] name \in {"set_track_clicks", "set_track_opens"} -> "filters"

\* C8: set_track_clicks(v) sets filters.clicktrack.settings.enable to the integer
\* 1 for true and 0 for false, set_track_opens does so for filters.opentrack; no
\* option setter (tracking, tags, metadata, send time) removes or changes the
\* option of another one; and without an x-smtpapi override serialize_data
\* encodes exactly those options, every key with its own value.
C8_TrackingFiltersKept ==
    [][
    /\ op'.name = "set_track_clicks" =>
           smtpapi'["filters"]["clicktrack"]["settings"]["enable"]
               = IF op'.arg THEN 1 ELSE 0
    /\ op'.name = "set_track_opens" =>
           smtpapi'["filters"]["opentrack"]["settings"]["enable"]
               = IF op'.arg THEN 1 ELSE 0
    /\ op'.name = "set_tags" => smtpapi'["category"] = op'.arg
    /\ op'.name = "set_metadata" => smtpapi'["unique_args"] = op'.arg
    /\ op'.name = "set_send_at" => smtpapi'["send_at"] = op'.arg[1]
    /\ op'.name \in {"set_track_clicks", "set_track_opens", "set_tags",
                     "set_metadata", "set_send_at"} =>
           /\ \A k \in DOMAIN smtpapi :
                  /\ k \in DOMAIN smtpapi'
                  /\ k # OwnKey(op'.name) => smtpapi'[k] = smtpapi[k]
           /\ "filters" \in DOMAIN smtpapi =>
                  \A f \in DOMAIN smtpapi["filters"] :
                      /\ f \in DOMAIN smtpapi'["filters"]
                      /\ ~(\/ op'.name = "set_track_clicks" /\ f = "clicktrack"
                           \/ op'.name = "set_track_opens" /\ f = "opentrack") =>
                             smtpapi'["filters"][f] = smtpapi["filters"][f]
    /\ (op'.name = "serialize_data" /\ DOMAIN smtpapi # {}
        /\ "x-smtpapi" \notin DOMAIN data) =>
           /\ data'["x-smtpapi"].kind = "json"
           /\ DOMAIN data'["x-smtpapi"].m = DOMAIN smtpapi
           /\ \A k \in DOMAIN smtpapi : data'["x-smtpapi"].m[k] = smtpapi[k]
    ]_vars

C8_Witness ==
    /\ pc = "serialized"
    /\ "x-smtpapi" \in DOMAIN data
    /\ DOMAIN data["x-smtpapi"].m = {"unique_args", "send_at", "category", "filters"}
    /\ DOMAIN data["x-smtpapi"].m["filters"] = {"clicktrack", "opentrack"}
    /\ data["x-smtpapi"].m["filters"]["clicktrack"]["settings"]["enable"] = 1
    /\ data["x-smtpapi"].m["filters"]["opentrack"]["settings"]["enable"] = 0

\* C9: serialize_data, whatever the order of set_esp_extra and the option
\* setters before it: with builder options and an override, the x-smtpapi field is
\* the JSON text of their shallow merge (every top-level key of either, the
\* override's whole value for a key of both, the builder's value otherwise); with
\* builder options only, their JSON text; with an override only, its JSON text;
\* with neither, there is no x-smtpapi field.
C9_ShallowMerge ==
    [][
    op'.name = "serialize_data" =>
        LET built == DOMAIN smtpapi # {}
            overridden == "x-smtpapi" \in DOMAIN data
        IN /\ (built /\ overridden) =>
                  /\ data'["x-smtpapi"].kind = "json"
                  /\ DOMAIN data'["x-smtpapi"].m
                         = DOMAIN smtpapi \cup DOMAIN data["x-smtpapi"]
                  /\ \A k \in DOMAIN data["x-smtpapi"] :
                         data'["x-smtpapi"].m[k] = data["x-smtpapi"][k]
                  /\ \A k \in DOMAIN smtpapi \ DOMAIN data["x-smtpapi"] :
                         data'["x-smtpapi"].m[k] = smtpapi[k]
           /\ (built /\ ~overridden) =>
                  /\ data'["x-smtpapi"].kind = "json"
                  /\ data'["x-smtpapi"].m = smtpapi
           /\ (~built /\ overridden) =>
                  /\ data'["x-smtpapi"].kind = "json"
                  /\ data'["x-smtpapi"].m = data["x-smtpapi"]
           /\ (~built /\ ~overridden) => "x-smtpapi" \notin DOMAIN data'
    ]_vars

C9_Witness ==
    /\ pc = "serialized"
    /\ "x-smtpapi" \in DOMAIN data
    /\ DOMAIN data["x-smtpapi"].m = {"send_at", "category", "filters", "ip_pool"}
    /\ data["x-smtpapi"].m["category"] = <<"receipt">>
    /\ DOMAIN data["x-smtpapi"].m["filters"] = {"clicktrack"}
    /\ data["x-smtpapi"].m["filters"]["clicktrack"]["settings"]["enable"] = 0
    /\ data["x-smtpapi"].m["ip_pool"] = "bulk"

(***************************************************************************)
(* Sender, reply-to and extra headers                                      *)
(***************************************************************************)
\* sender addresses, as tokens: with no "@", one "@" or several
Senders ==
    {[email |-> [t |-> "str", v |-> e], name |-> n] :
         e \in SeqsUpTo({"alice", "@", "example.com"}, MaxSender) \ {<<>>},
         n \in {"", "Alice"}}

set_from_email(email) ==
    /\ pc = "building"
    /\ data' = IF email.name # ""
               THEN Update(Update(data, Single("from", email.email)),
                           Single("fromname", email.name))
               ELSE Update(data, Single("from", email.email))
    /\ op' = [name |-> "set_from_email", arg |-> email]
    /\ raised' = NoError
    /\ UNCHANGED <<files, smtpapi, all_recipients, message_id, pc, result, given>>

\* ParsedEmail.address: the address with its display name
Address(email) ==
    IF email.name # "" THEN <<email.name, " <", email.email, ">">>
    ELSE <<email.email>>

ReplyToLists ==
    SeqsUpTo({r \in Recipients : r.email \in {"a@x.org", "b@x.org"}}, MaxEmails)

set_reply_to(emails) ==
    /\ pc = "building"
    /\ IF emails # <<>>
       THEN data' = Update(data, Single("headers",
                SetItem(data["headers"], "Reply-To",
                    [t |-> "str",
                     v |-> Join([i \in 1..Len(emails) |-> Address(emails[i])], ", ")])))
       ELSE UNCHANGED data
    /\ op' = [name |-> "set_reply_to", arg |-> emails]
    /\ raised' = NoError
    /\ UNCHANGED <<files, smtpapi, all_recipients, message_id, pc, result, given>>

\* str(v) if isinstance(v, (int, float)) else v
Stringify(value) ==
    IF value.t \in {"int", "float"} THEN [t |-> "str", v |-> value.v] ELSE value

set_extra_headers(headers) ==
    /\ pc = "building"
    /\ data' = Update(data, Single("headers",
           UpdateItems(data["headers"],
               [i \in 1..Len(headers) |-> <<headers[i][1], Stringify(headers[i][2])>>])))
    /\ op' = [name |-> "set_extra_headers", arg |-> headers]
    /\ raised' = NoError
    /\ UNCHANGED <<files, smtpapi, all_recipients, message_id, pc, result, given>>

\* a headers argument: a dict, as its items in iteration order (the keys differ)
HeaderDicts(names, values) ==
    {h \in SeqsUpTo(names \X values, MaxHeaders) :
         \A i, j \in 1..Len(h) : i # j => h[i][1] # h[j][1]}

HeaderValues == {[t |-> "str", v |-> <<"v1">>], [t |-> "int", v |-> <<"5">>],
                 [t |-> "float", v |-> <<"1.5">>]}

IdValues == {[t |-> "str", v |-> <<"<id1@host>">>],
             [t |-> "str", v |-> <<"<id2@host>">>]}

\* esp_extra values that hold a sender or a "headers" mapping (a plain dict)
SenderExtra(i) ==
    CASE i = 1 -> Single("from", [t |-> "int", v |-> <<"5">>])
      [] i = 2 -> Single("headers",
                     [kind |-> "dict",
                      m |-> Single("message-id", [t |-> "str", v |-> <<"<id1@host>">>])])
      [] i = 3 -> Single("headers",
                     [kind |-> "dict",
                      m |-> Single("Message-ID", [t |-> "str", v |-> <<"<id2@host>">>])])

SenderExtras == 1..3

NextMessageId ==
    \/ \E email \in Senders : set_from_email(email)
    \/ \E headers \in HeaderDicts({"Message-ID", "message-id"}, IdValues) :
           set_extra_headers(headers)
    \/ \E i \in SenderExtras : set_esp_extra(SenderExtra(i))
    \/ serialize_data

SpecMessageId == Init /\ [][NextMessageId]_vars

HeadersExtra(i) ==
    CASE i = 1 -> Single("headers",
                     [kind |-> "dict",
                      m |-> Single("reply-to", [t |-> "str", v |-> <<"v1">>])])
      [] i = 2 -> Single("headers",
                     [kind |-> "dict",
                      m |-> Single("X-Tag", [t |-> "str", v |-> <<"v1">>])])

HeadersExtras == 1..2

NextHeaders ==
    \/ \E headers \in HeaderDicts({"X-Tag", "x-tag", "reply-to"}, HeaderValues) :
           set_extra_headers(headers)
    \/ \E emails \in ReplyToLists : set_reply_to(emails)
    \/ \E i \in HeadersExtras : set_esp_extra(HeadersExtra(i))
    \/ serialize_data

SpecHeaders == Init /\ [][NextHeaders]_vars

\* an identifier make_msgid made
IsSynthesized(id) == Len(id.v) >= 3 /\ id.v[2] = "unique"

\* the part of the sender address after its only "@", else the default domain
ExpectedDomain ==
    IF "from" \notin DOMAIN data THEN <<"localhost">>
    ELSE IF data["from"].t # "str" THEN <<"localhost">>
    ELSE LET v == data["from"].v
             at == {i \in 1..Len(v) : v[i] = "@"}
         IN IF Cardinality(at) # 1 THEN <<"localhost">>
            ELSE LET i == CHOOSE j \in at : TRUE IN SubSeq(v, i + 1, Len(v))

\* C7: serialize_data raises nothing; when the caller supplied a Message-ID
\* header, in any letter case, message_id is that value and none is synthesized;
\* otherwise the synthesized identifier's domain is the part of the sender
\* address after "@", or the default domain when the sender is absent, has no or
\* several "@", or is no string; and message_id is the Message-ID of the encoded
\* headers.
C7_MessageIdResolved ==
    pc = "serialized" =>
        LET m == data["headers"].m
            ids == {k \in DOMAIN m : Lower(k) = "message-id"}
        IN /\ raised.type = "none"
           /\ data["headers"].kind = "json"
           /\ ids # {}
           /\ \A k \in ids : m[k] = message_id
           /\ (\E k \in ids : ~IsSynthesized(m[k])) => ~IsSynthesized(message_id)
           /\ IsSynthesized(message_id) =>
                  /\ message_id.v[3] = "@"
                  /\ SubSeq(message_id.v, 4, Len(message_id.v) - 1) = ExpectedDomain

\* C10: after set_extra_headers, set_reply_to and set_esp_extra calls and
\* serialize_data, no two names of the encoded headers differ only in letter
\* case; and every value passed to set_extra_headers is held as a string.
C10_HeadersCaseInsensitive ==
    /\ pc = "serialized" =>
           \A k1, k2 \in DOMAIN data["headers"].m :
               Lower(k1) = Lower(k2) => k1 = k2
    /\ op.name = "set_extra_headers" =>
           \A i \in 1..Len(op.arg) :
               /\ HasItem(data["headers"], op.arg[i][1])
               /\ GetItem(data["headers"], op.arg[i][1]).t = "str"

====
